---- MODULE Spec2Model ----
(***************************************************************************)
(* The conversation-topology classifier of ai-chat-flow                    *)
(* (server/services/topology.ts) as a state machine: a conversation grows  *)
(* message by message and is classified by calculateTopology.              *)
(*                                                                         *)
(* A JavaScript string is a sequence of one-character strings, so that     *)
(* includes, toLowerCase and the template literals are computed character  *)
(* by character.                                                           *)
(***************************************************************************)
EXTENDS Integers, Sequences, FiniteSets, TLC

VARIABLES
    messages,      \* the message list handed to calculateTopology
    topology,      \* the TopologyPattern the last call returned
    calls,         \* the helpers the last call ran, in order
    classified,    \* TRUE when topology is the result for the current messages
    twin,          \* a second conversation, grown in step with messages
    twinTopology,  \* the TopologyPattern returned for twin
    invocations,   \* the calls of calculateTopology counted under SpecRepeat
    pending,       \* the messages a growing conversation is still to receive
    now,           \* the clock new Date() reads, in ms since the epoch
    documents,     \* the documents exportSessionToJson has returned, in order
    sessions,      \* MemStorage.sessions: session id -> Session
    store,         \* MemStorage.messages, in insertion order
    analyses,      \* MemStorage.topologyAnalyses, in insertion order
    handlers,      \* the message route's invocations: position and locals
    microtasks,    \* the invocations whose continuation is queued, in order
    nextId,        \* the ids randomUUID has handed out
    deleted,       \* the session ids deleteSession has been called with
    lastSaved,     \* per session id, the analysis saveTopologyAnalysis stored
                   \* last since the id was last deleted
    alone          \* per session, the storage and invocations of a server
                   \* that is sent this session's requests only

\* the storage and the route invocations
apiVars ==
    <<sessions, store, analyses, handlers, microtasks, nextId, deleted,
      lastSaved, alone>>

\* the state of the classifier's callers
serviceVars == <<now, documents, apiVars>>

vars == <<messages, topology, calls, classified, twin, twinTopology,
          invocations, pending, serviceVars>>

(***************************************************************************)
(* Bounds of the model.                                                    *)
(***************************************************************************)
MaxLen == 4        \* messages of a conversation under Spec
MaxLongLen == 17   \* messages of a conversation under SpecLong
MaxTwinLen == 3    \* messages of each conversation under SpecTwin
MaxRepeatLen == 2  \* messages of a conversation under SpecRepeat
MaxCalls == 3      \* calls of calculateTopology on one list under SpecRepeat
MaxShuffleLen == 3 \* messages of a conversation under SpecShuffle
MaxExportLen == 2  \* messages of the session exported under SpecExport
MaxExports == 2    \* exports of one session under SpecExport
MaxClock == 1      \* ms the clock advances
MaxSaves == 3      \* calls of saveTopologyAnalysis under SpecStorage

(***************************************************************************)
(* The callers before any request.                                         *)
(***************************************************************************)
Null == "null"

\* the two sessions clients address and the two invocations of the message
\* route, in order of arrival
SessionIds == {"A", "B"}
HandlerIds == {1, 2}

\* what getSession resolves to for an unknown id, and the locals of an
\* invocation before they are assigned
NoSession == [id |-> Null]
NoResponse == [content |-> <<>>, topologyImpact |-> Null]
NoTopology == [pattern |-> <<>>]
NoMessage == [id |-> 0]
\* what getTopologyAnalysis resolves to when find finds nothing
NoAnalysis == [id |-> 0]

IdleHandler ==
    [pc |-> "idle", sessionId |-> Null, content |-> <<>>,
     session |-> NoSession, userMessage |-> NoMessage, messages |-> <<>>,
     aiResponse |-> NoResponse, aiMessage |-> NoMessage,
     updatedMessages |-> <<>>, topology |-> NoTopology, status |-> 0]

\* new MemStorage(), no request received
EmptyWorld ==
    [sessions |-> <<>>, store |-> <<>>, analyses |-> <<>>,
     handlers |-> [h \in HandlerIds |-> IdleHandler]]

ApiIdle ==
    /\ sessions = EmptyWorld.sessions
    /\ store = EmptyWorld.store
    /\ analyses = EmptyWorld.analyses
    /\ handlers = EmptyWorld.handlers
    /\ microtasks = <<>>
    /\ nextId = 0
    /\ deleted = {}
    /\ lastSaved = [s \in SessionIds |-> NoAnalysis]
    /\ alone = [s \in SessionIds |-> EmptyWorld]

ServiceIdle ==
    /\ now = 0
    /\ documents = <<>>
    /\ ApiIdle

(***************************************************************************)
(* Strings.                                                                *)
(***************************************************************************)
\* the lower-case letter of each upper-case ASCII letter
LowerOf ==
    [A |-> "a", B |-> "b", C |-> "c", D |-> "d", E |-> "e", F |-> "f",
     G |-> "g", H |-> "h", I |-> "i", J |-> "j", K |-> "k", L |-> "l",
     M |-> "m", N |-> "n", O |-> "o", P |-> "p", Q |-> "q", R |-> "r",
     S |-> "s", T |-> "t", U |-> "u", V |-> "v", W |-> "w", X |-> "x",
     Y |-> "y", Z |-> "z"]

\* String.prototype.toLowerCase on ASCII text
toLowerCase(s) ==
    [i \in 1..Len(s) |->
        IF s[i] \in DOMAIN LowerOf THEN LowerOf[s[i]] ELSE s[i]]

\* String.prototype.includes
includes(s, sub) ==
    \E i \in 1..(Len(s) - Len(sub) + 1) : SubSeq(s, i, i + Len(sub) - 1) = sub

DecimalDigit == <<"0","1","2","3","4","5","6","7","8","9">>

\* the decimal rendering of a number inside a template literal, `${n}`
RECURSIVE numberToString(_)
numberToString(n) ==
    IF n < 10 THEN <<DecimalDigit[n + 1]>>
    ELSE numberToString(n \div 10) \o <<DecimalDigit[(n % 10) + 1]>>

\* Array.prototype.join("")
RECURSIVE join(_)
join(parts) ==
    IF parts = <<>> THEN <<>> ELSE Head(parts) \o join(Tail(parts))

\* Array(n).fill(x)
fill(n, x) == [i \in 1..n |-> x]

MathMax(a, b) == IF a >= b THEN a ELSE b
MathMin(a, b) == IF a <= b THEN a ELSE b
\* Math.ceil(n / 2) and Math.floor(n / 2) for n >= 0
MathCeilHalf(n) == (n + 1) \div 2
MathFloorHalf(n) == n \div 2

(***************************************************************************)
(* The keywords the extractor looks for.                                   *)
(***************************************************************************)
QuestionMark == <<"?">>
What == <<"w","h","a","t">>
How == <<"h","o","w">>
Conclusion == <<"c","o","n","c","l","u","s","i","o","n">>
Summary == <<"s","u","m","m","a","r","y">>
ClosureAttempt == "closure_attempt"

(***************************************************************************)
(* analyzeThreads: the extractor's scan and the resolver's thresholds.     *)
(***************************************************************************)
\* hasBranchingSignal that looks at the user's messages only
hasBranchingSignalUserOnly(message) ==
    /\ message.role = "user"
    /\ \/ includes(message.content, QuestionMark)
       \/ includes(toLowerCase(message.content), What)
       \/ includes(toLowerCase(message.content), How)

\* hasBranchingSignal without the toLowerCase calls
hasBranchingSignalCaseSensitive(message) ==
    \/ includes(message.content, QuestionMark)
    \/ includes(message.content, What)
    \/ includes(message.content, How)

\* the condition of the first if of the loop
hasBranchingSignal(message) ==
    \/ includes(message.content, QuestionMark)
    \/ includes(toLowerCase(message.content), What)
    \/ includes(toLowerCase(message.content), How)

\* the condition of the second if of the loop
hasClosureSignal(message) ==
    \/ includes(toLowerCase(message.content), Conclusion)
    \/ includes(toLowerCase(message.content), Summary)
    \/ message.topologyImpact = ClosureAttempt

\* the for loop from message i on, with the counters' values on entry
RECURSIVE scanMessages(_, _, _, _)
scanMessages(msgs, i, branchingPoints, closureAttempts) ==
    IF i > Len(msgs)
    THEN [branchingPoints |-> branchingPoints,
          closureAttempts |-> closureAttempts]
    ELSE scanMessages(msgs, i + 1,
             IF hasBranchingSignal(msgs[i])
             THEN branchingPoints + 1 ELSE branchingPoints,
             IF hasClosureSignal(msgs[i])
             THEN closureAttempts + 1 ELSE closureAttempts)

\* resolveOrder with >= for > in every threshold
resolveOrderInclusive(messageCount, branchingPoints) ==
    LET o1 == 1
        o2 == IF messageCount >= 3 THEN 2 ELSE o1
        o3 == IF messageCount >= 8 \/ branchingPoints >= 2 THEN 3 ELSE o2
        o4 == IF messageCount >= 15 \/ branchingPoints >= 4 THEN 4 ELSE o3
    IN  o4

\* resolveOrder with let order = 0
resolveOrderFromZero(messageCount, branchingPoints) ==
    LET o1 == 0
        o2 == IF messageCount > 3 THEN 2 ELSE o1
        o3 == IF messageCount > 8 \/ branchingPoints > 2 THEN 3 ELSE o2
        o4 == IF messageCount > 15 \/ branchingPoints > 4 THEN 4 ELSE o3
    IN  o4

\* resolveOrder with && for || in the test for order 3
resolveOrderConjunctive(messageCount, branchingPoints) ==
    LET o1 == 1
        o2 == IF messageCount > 3 THEN 2 ELSE o1
        o3 == IF messageCount > 8 /\ branchingPoints > 2 THEN 3 ELSE o2
        o4 == IF messageCount > 15 \/ branchingPoints > 4 THEN 4 ELSE o3
    IN  o4

\* resolveOrder with the three ifs chained by else: the first true one wins
resolveOrderElseChain(messageCount, branchingPoints) ==
    IF messageCount > 3 THEN 2
    ELSE IF messageCount > 8 \/ branchingPoints > 2 THEN 3
    ELSE IF messageCount > 15 \/ branchingPoints > 4 THEN 4
    ELSE 1

\* let order = 1, then the three ifs in sequence
resolveOrder(messageCount, branchingPoints) ==
    LET o1 == 1
        o2 == IF messageCount > 3 THEN 2 ELSE o1
        o3 == IF messageCount > 8 \/ branchingPoints > 2 THEN 3 ELSE o2
        o4 == IF messageCount > 15 \/ branchingPoints > 4 THEN 4 ELSE o3
    IN  o4

\* resolveThreads without the cap at order + 1
resolveThreadsUncapped(order, branchingPoints) ==
    MathMax(1, MathCeilHalf(branchingPoints) + 1)

\* resolveThreads capped at order for order + 1
resolveThreadsCapAtOrder(order, branchingPoints) ==
    MathMax(1, MathMin(order, MathCeilHalf(branchingPoints) + 1))

\* resolveThreads with Math.floor for Math.ceil
resolveThreadsFloor(order, branchingPoints) ==
    MathMax(1, MathMin(order + 1, MathFloorHalf(branchingPoints) + 1))

resolveThreads(order, branchingPoints) ==
    MathMax(1, MathMin(order + 1, MathCeilHalf(branchingPoints) + 1))

\* resolveNestingDepth with Math.ceil for Math.floor
resolveNestingDepthCeil(branchingPoints) ==
    MathMin(4, MathMax(1, MathCeilHalf(branchingPoints) + 1))

\* resolveNestingDepth without the Math.min(4, ...) cap
resolveNestingDepthUncapped(branchingPoints) ==
    MathMax(1, MathFloorHalf(branchingPoints) + 1)

\* resolveNestingDepth with the cap taken as a remainder
resolveNestingDepthWrap(branchingPoints) ==
    MathMax(1, (MathFloorHalf(branchingPoints) % 4) + 1)

resolveNestingDepth(branchingPoints) ==
    MathMin(4, MathMax(1, MathFloorHalf(branchingPoints) + 1))

\* analyzeThreads with nestingDepth computed from closureAttempts
analyzeThreadsClosureDepth(msgs) ==
    LET messageCount == Len(msgs)
        counted == scanMessages(msgs, 1, 0, 0)
        order == resolveOrder(messageCount, counted.branchingPoints)
    IN  [order |-> order,
         threads |-> resolveThreads(order, counted.branchingPoints),
         nestingDepth |-> resolveNestingDepth(counted.closureAttempts),
         branchingPoints |-> counted.branchingPoints,
         closureAttempts |-> counted.closureAttempts]

analyzeThreads(msgs) ==
    LET messageCount == Len(msgs)
        counted == scanMessages(msgs, 1, 0, 0)
        order == resolveOrder(messageCount, counted.branchingPoints)
    IN  [order |-> order,
         threads |-> resolveThreads(order, counted.branchingPoints),
         nestingDepth |-> resolveNestingDepth(counted.branchingPoints),
         branchingPoints |-> counted.branchingPoints,
         closureAttempts |-> counted.closureAttempts]

(***************************************************************************)
(* The renderer.                                                           *)
(***************************************************************************)
\* determineComplexity without the order === 3 line
determineComplexityNoTriad(analysis) ==
    IF analysis.order = 1 THEN "monologue"
    ELSE IF analysis.order = 2 THEN "dialogue"
    ELSE "multi_threaded_discourse"

determineComplexity(analysis) ==
    IF analysis.order = 1 THEN "monologue"
    ELSE IF analysis.order = 2 THEN "dialogue"
    ELSE IF analysis.order = 3 THEN "complex_dialogue"
    ELSE "multi_threaded_discourse"

\* the loop of generateNestedPattern: pattern after the iterations i = 1 .. k
RECURSIVE wrapTimes(_, _)
wrapTimes(pattern, k) ==
    IF k <= 0 THEN pattern
    ELSE wrapTimes(<<"(">> \o pattern \o <<")">>, k - 1)

\* generateNestedPattern with the loop started at i = 0
generateNestedPatternFromZero(depth) ==
    IF depth <= 1 THEN <<"(", ")">>
    ELSE wrapTimes(<<"(", ")">>, depth)

generateNestedPattern(depth) ==
    IF depth <= 1 THEN <<"(", ")">>
    ELSE wrapTimes(<<"(", ")">>, depth - 1)

\* generatePattern without the parentheses the template puts around the
\* perspectival segment
generatePatternBare(analysis) ==
    IF analysis.order = 1
    THEN <<"s","1","=","{","[","(",")","]","}">>
    ELSE LET procedural == join(fill(analysis.threads, <<"(", ")">>))
             perspectival == generateNestedPattern(analysis.nestingDepth)
         IN  <<"s">> \o numberToString(analysis.order) \o <<"=","{","[">>
                 \o procedural \o <<"]",",","[">>
                 \o perspectival \o <<"]","}">>

generatePattern(analysis) ==
    IF analysis.order = 1
    THEN <<"s","1","=","{","[","(",")","]","}">>
    ELSE LET procedural == join(fill(analysis.threads, <<"(", ")">>))
             perspectival == generateNestedPattern(analysis.nestingDepth)
         IN  <<"s">> \o numberToString(analysis.order) \o <<"=","{","[">>
                 \o procedural \o <<"]",",","[","(">>
                 \o perspectival \o <<")","]","}">>

\* calculatePrimeFactors with nestingDepth >= 2 for nestingDepth > 2
calculatePrimeFactorsDepthTwo(analysis) ==
    LET f1 == IF analysis.threads >= 2 THEN <<"p1p1">> ELSE <<>>
        f2 == IF analysis.order >= 2 THEN Append(f1, "p2") ELSE f1
        f3 == IF analysis.order >= 3 THEN Append(f2, "p3") ELSE f2
        factors == IF analysis.nestingDepth >= 2 THEN Append(f3, "p5") ELSE f3
    IN  IF Len(factors) > 0 THEN factors ELSE <<"p1">>

\* calculatePrimeFactors with "p1" pushed first instead of as the fallback
calculatePrimeFactorsAlwaysP1(analysis) ==
    LET f0 == <<"p1">>
        f1 == IF analysis.threads >= 2 THEN Append(f0, "p1p1") ELSE f0
        f2 == IF analysis.order >= 2 THEN Append(f1, "p2") ELSE f1
        f3 == IF analysis.order >= 3 THEN Append(f2, "p3") ELSE f2
        factors == IF analysis.nestingDepth > 2 THEN Append(f3, "p5") ELSE f3
    IN  factors

\* calculatePrimeFactors without the ["p1"] fallback
calculatePrimeFactorsNoFallback(analysis) ==
    LET f1 == IF analysis.threads >= 2 THEN <<"p1p1">> ELSE <<>>
        f2 == IF analysis.order >= 2 THEN Append(f1, "p2") ELSE f1
        f3 == IF analysis.order >= 3 THEN Append(f2, "p3") ELSE f2
        factors == IF analysis.nestingDepth > 2 THEN Append(f3, "p5") ELSE f3
    IN  factors

calculatePrimeFactors(analysis) ==
    LET f1 == IF analysis.threads >= 2 THEN <<"p1p1">> ELSE <<>>
        f2 == IF analysis.order >= 2 THEN Append(f1, "p2") ELSE f1
        f3 == IF analysis.order >= 3 THEN Append(f2, "p3") ELSE f2
        factors == IF analysis.nestingDepth > 2 THEN Append(f3, "p5") ELSE f3
    IN  IF Len(factors) > 0 THEN factors ELSE <<"p1">>

\* buildStructure with the second perspectival element nested to the full
\* nestingDepth
buildStructureFullDepth(analysis) ==
    LET procedural == fill(analysis.threads, <<"(", ")">>)
        base == << <<"(", ")">> >>
        perspectival ==
            IF analysis.nestingDepth > 1
            THEN Append(base, generateNestedPattern(analysis.nestingDepth))
            ELSE base
    IN  [procedural |-> procedural,
         perspectival |-> perspectival,
         participatory |-> <<"s">> \o numberToString(analysis.order)]

buildStructure(analysis) ==
    LET procedural == fill(analysis.threads, <<"(", ")">>)
        base == << <<"(", ")">> >>
        perspectival ==
            IF analysis.nestingDepth > 1
            THEN Append(base, generateNestedPattern(analysis.nestingDepth - 1))
            ELSE base
    IN  [procedural |-> procedural,
         perspectival |-> perspectival,
         participatory |-> <<"s">> \o numberToString(analysis.order)]

createEmptyTopology ==
    [pattern |-> <<"s","0","=","{","}">>,
     order |-> 0,
     threads |-> 0,
     complexity |-> "empty",
     primeFactors |-> <<>>,
     structure |-> [procedural |-> <<>>,
                    perspectival |-> <<>>,
                    participatory |-> <<"s","0">>],
     nestingDepth |-> 0]

\* calculateTopology without the messageCount === 0 return
calculateTopologyNoEmptyReturn(msgs) ==
    LET threadAnalysis == analyzeThreads(msgs)
    IN  [pattern |-> generatePattern(threadAnalysis),
         order |-> threadAnalysis.order,
         threads |-> threadAnalysis.threads,
         complexity |-> determineComplexity(threadAnalysis),
         primeFactors |-> calculatePrimeFactors(threadAnalysis),
         structure |-> buildStructure(threadAnalysis),
         nestingDepth |-> threadAnalysis.nestingDepth]

calculateTopology(msgs) ==
    IF Len(msgs) = 0 THEN createEmptyTopology
    ELSE LET threadAnalysis == analyzeThreads(msgs)
         IN  [pattern |-> generatePattern(threadAnalysis),
              order |-> threadAnalysis.order,
              threads |-> threadAnalysis.threads,
              complexity |-> determineComplexity(threadAnalysis),
              primeFactors |-> calculatePrimeFactors(threadAnalysis),
              structure |-> buildStructure(threadAnalysis),
              nestingDepth |-> threadAnalysis.nestingDepth]

\* the helpers one call of calculateTopology runs, in call order
helpersRun(msgs) ==
    IF Len(msgs) = 0 THEN <<"createEmptyTopology">>
    ELSE <<"analyzeThreads", "determineComplexity", "generatePattern",
           "calculatePrimeFactors", "buildStructure">>

(***************************************************************************)
(* Inputs.  A Message carries the fields the classifier reads (role,       *)
(* content, topologyImpact).                                               *)
(***************************************************************************)
Message(role, content, topologyImpact) ==
    [role |-> role, content |-> content, topologyImpact |-> topologyImpact]

Hello == <<"H","e","l","l","o">>
WhyQ == <<"W","h","y","?">>
WHAT == <<"W","H","A","T">>
Show == <<"S","h","o","w">>
SummaryNote == <<"S","u","m","m","a","r","y">>
ConclusionQ == <<"c","o","n","c","l","u","s","i","o","n","?">>

\* what the message route stores: the user's text tagged "user_input", then
\* the assistant's reply with the tag the provider chose
Messages ==
    {Message("user", c, "user_input") : c \in {Hello, WhyQ, Show, SummaryNote}}
        \cup {Message("assistant", c, ClosureAttempt) : c \in {Hello, WHAT}}
        \cup {Message("assistant", c, "exploration") : c \in {Hello, ConclusionQ}}

\* message i of a long conversation of n messages: roles alternate from the
\* user; b messages carry a branching signal, the first b (fromStart) or the
\* last b; the first c messages carry a closure signal, by wording or by tag
longMessage(i, n, b, c, fromStart) ==
    LET role == IF i % 2 = 1 THEN "user" ELSE "assistant"
        branching == IF fromStart THEN i <= b ELSE i > n - b
        closure == i <= c
        content == IF branching THEN (IF i % 2 = 1 THEN WhyQ ELSE WHAT)
                   ELSE IF closure THEN SummaryNote ELSE Hello
        tag == IF closure /\ branching THEN ClosureAttempt
               ELSE IF role = "user" THEN "user_input" ELSE "exploration"
    IN  Message(role, content, tag)

\* the conversations of up to MaxLongLen messages SpecLong classifies
LongInputs ==
    {[i \in 1..n |-> longMessage(i, n, b, c, fromStart)] :
        <<n, b, c, fromStart>> \in
            {q \in (0..MaxLongLen) \X (0..MaxLongLen) \X (0..MaxLongLen) \X BOOLEAN :
                q[2] <= q[1] /\ q[3] <= q[1]}}

\* the kinds of message of the paired conversations: with and without a
\* branching signal, with and without a closure signal
TwinMessages ==
    {Message("user", Hello, "user_input"),
     Message("assistant", SummaryNote, "exploration"),
     Message("user", WhyQ, "user_input"),
     Message("assistant", WhyQ, ClosureAttempt)}

\* topology before calculateTopology has returned anything
NotCalled == [pattern |-> <<>>]

(***************************************************************************)
(* The state machine.                                                      *)
(***************************************************************************)
Init ==
    /\ messages = <<>>
    /\ topology = NotCalled
    /\ calls = <<>>
    /\ classified = FALSE
    /\ twin = <<>>
    /\ twinTopology = NotCalled
    /\ invocations = 0
    /\ pending = <<>>
    /\ ServiceIdle

\* a message is added to the conversation
AppendMessage(m) ==
    /\ Len(messages) < MaxLen
    /\ messages' = Append(messages, m)
    /\ classified' = FALSE
    /\ UNCHANGED <<topology, calls, twin, twinTopology, invocations, pending,
                   serviceVars>>

\* calculateTopology(messages) is called and returns
Classify ==
    /\ topology' = calculateTopology(messages)
    /\ calls' = helpersRun(messages)
    /\ classified' = TRUE
    /\ UNCHANGED <<messages, twin, twinTopology, invocations, pending,
                   serviceVars>>

\* a message is added to each of two conversations and both are classified
ExchangeTwin(m, t) ==
    /\ Len(messages) < MaxTwinLen
    /\ messages' = Append(messages, m)
    /\ twin' = Append(twin, t)
    /\ topology' = calculateTopology(messages')
    /\ twinTopology' = calculateTopology(twin')
    /\ calls' = helpersRun(messages')
    /\ classified' = TRUE
    /\ UNCHANGED <<invocations, pending, serviceVars>>

\* calculateTopology with a scan that takes each message off the caller's
\* array (messages.shift()) for the for...of over it
InvokeDraining ==
    /\ invocations < MaxCalls
    /\ topology' = calculateTopology(messages)
    /\ calls' = helpersRun(messages)
    /\ classified' = TRUE
    /\ invocations' = invocations + 1
    /\ messages' = <<>>
    /\ UNCHANGED <<twin, twinTopology, pending, serviceVars>>

\* one more call of calculateTopology on the same array: the function reads
\* its argument and no binding outside its own frame
Invoke ==
    /\ invocations < MaxCalls
    /\ topology' = calculateTopology(messages)
    /\ calls' = helpersRun(messages)
    /\ classified' = TRUE
    /\ invocations' = invocations + 1
    /\ UNCHANGED <<messages, twin, twinTopology, pending, serviceVars>>

Next == (\E m \in Messages : AppendMessage(m)) \/ Classify
Spec == Init /\ [][Next]_vars

\* SpecLong: calculateTopology applied to each of the long conversations
InitLong ==
    /\ messages \in LongInputs
    /\ topology = NotCalled
    /\ calls = <<>>
    /\ classified = FALSE
    /\ twin = <<>>
    /\ twinTopology = NotCalled
    /\ invocations = 0
    /\ pending = <<>>
    /\ ServiceIdle

NextLong == Classify
SpecLong == InitLong /\ [][NextLong]_vars

\* SpecRepeat: calculateTopology called again and again on one message list
RepeatInputs ==
    UNION {[1..n -> Messages] : n \in 0..MaxRepeatLen}

InitRepeat ==
    /\ messages \in RepeatInputs
    /\ topology = NotCalled
    /\ calls = <<>>
    /\ classified = FALSE
    /\ twin = <<>>
    /\ twinTopology = NotCalled
    /\ invocations = 0
    /\ pending = <<>>
    /\ ServiceIdle

NextRepeat == Invoke
SpecRepeat == InitRepeat /\ [][NextRepeat]_vars

NextTwin == \E m \in TwinMessages, t \in TwinMessages : ExchangeTwin(m, t)
SpecTwin == Init /\ [][NextTwin]_vars

\* SpecGrow: a conversation receives the messages of a long conversation one
\* at a time and is classified after each, as the message route classifies
\* after each stored message
InitGrow ==
    /\ messages = <<>>
    /\ topology = calculateTopology(<<>>)
    /\ calls = helpersRun(<<>>)
    /\ classified = TRUE
    /\ twin = <<>>
    /\ twinTopology = NotCalled
    /\ invocations = 0
    /\ pending \in LongInputs
    /\ ServiceIdle

Grow ==
    /\ pending # <<>>
    /\ messages' = Append(messages, Head(pending))
    /\ pending' = Tail(pending)
    /\ topology' = calculateTopology(messages')
    /\ calls' = helpersRun(messages')
    /\ classified' = TRUE
    /\ UNCHANGED <<twin, twinTopology, invocations, serviceVars>>

NextGrow == Grow
SpecGrow == InitGrow /\ [][NextGrow]_vars

\* SpecShuffle: a conversation and a rearrangement of it are classified.
\* A message carries its id and createdAt beside the fields the classifier
\* reads.
ShuffleContents == {Hello, WhyQ, SummaryNote}

otherRole(role) == IF role = "user" THEN "assistant" ELSE "user"

\* the conversations of up to MaxShuffleLen messages, roles alternating from
\* the user, ids and createdAt counting up
ShuffleInputs ==
    UNION {{[i \in 1..n |->
                [id |-> i,
                 role |-> IF i % 2 = 1 THEN "user" ELSE "assistant",
                 content |-> c[i],
                 topologyImpact |-> IF i % 2 = 1 THEN "user_input"
                                    ELSE "exploration",
                 createdAt |-> i]] :
             c \in [1..n -> ShuffleContents]} :
           n \in 0..MaxShuffleLen}

\* msgs in the order order, with the roles exchanged (swapRoles) and with
\* other ids and timestamps (restamp)
rearranged(msgs, order, swapRoles, restamp) ==
    [i \in 1..Len(msgs) |->
        LET m == msgs[order[i]]
        IN  [id |-> IF restamp THEN m.id + Len(msgs) ELSE m.id,
             role |-> IF swapRoles THEN otherRole(m.role) ELSE m.role,
             content |-> m.content,
             topologyImpact |-> m.topologyImpact,
             createdAt |-> IF restamp THEN 2 * m.createdAt ELSE m.createdAt]]

Rearrangements(msgs) ==
    {rearranged(msgs, order, swapRoles, restamp) :
        order \in {f \in [1..Len(msgs) -> 1..Len(msgs)] :
                      \A i, j \in 1..Len(msgs) : f[i] = f[j] => i = j},
        swapRoles \in BOOLEAN, restamp \in BOOLEAN}

InitShuffle ==
    /\ messages \in ShuffleInputs
    /\ twin \in Rearrangements(messages)
    /\ topology = NotCalled
    /\ twinTopology = NotCalled
    /\ calls = <<>>
    /\ classified = FALSE
    /\ invocations = 0
    /\ pending = <<>>
    /\ ServiceIdle

\* calculateTopology is called on the conversation and on its rearrangement
ClassifyBoth ==
    /\ ~classified
    /\ topology' = calculateTopology(messages)
    /\ twinTopology' = calculateTopology(twin)
    /\ calls' = helpersRun(messages)
    /\ classified' = TRUE
    /\ UNCHANGED <<messages, twin, invocations, pending, serviceVars>>

NextShuffle == ClassifyBoth
SpecShuffle == InitShuffle /\ [][NextShuffle]_vars

(***************************************************************************)
(* Properties.                                                             *)
(***************************************************************************)
\* the number of messages of msgs that carry a branching signal
BranchingMessages(msgs) ==
    Cardinality({i \in 1..Len(msgs) : hasBranchingSignal(msgs[i])})

\* the number of messages of msgs that carry a closure signal
ClosureMessages(msgs) ==
    Cardinality({i \in 1..Len(msgs) : hasClosureSignal(msgs[i])})

PatternS0 == <<"s","0","=","{","}">>
PatternS1 == <<"s","1","=","{","[","(",")","]","}">>
\* "s3={[()()()],[((()))]}"
PatternScenarioB ==
    <<"s","3","=","{","[","(",")","(",")","(",")","]",",",
      "[","(","(","(",")",")",")","]","}">>

\* C1: calculateTopology on the empty message list returns exactly the fixed
\* empty topology (pattern "s0={}", order 0, threads 0, complexity "empty",
\* no prime factors, empty structure with participatory "s0", nestingDepth 0)
\* and runs neither the extractor nor the resolver.
C1_EmptyInput ==
    (classified /\ messages = <<>>) =>
        /\ topology = [pattern |-> PatternS0,
                       order |-> 0,
                       threads |-> 0,
                       complexity |-> "empty",
                       primeFactors |-> <<>>,
                       structure |-> [procedural |-> <<>>,
                                      perspectival |-> <<>>,
                                      participatory |-> <<"s","0">>],
                       nestingDepth |-> 0]
        /\ calls = <<"createEmptyTopology">>

C1_Witness == classified /\ messages = <<>> /\ calls # <<>>

\* C2 as stated: whenever messageCount <= 3 and branchingPoints <= 2 the
\* pattern is exactly "s1={[()]}".
C2_AsStated ==
    (classified /\ Len(messages) <= 3 /\ BranchingMessages(messages) <= 2) =>
        topology.pattern = PatternS1

\* C2 amended: for every message list with 1 <= messageCount <= 3 and
\* branchingPoints <= 2 the pattern is exactly "s1={[()]}", whatever the
\* roles, closure wording and tags of the messages.
C2_Order1Stability ==
    (/\ classified
     /\ Len(messages) >= 1
     /\ Len(messages) <= 3
     /\ BranchingMessages(messages) <= 2) =>
        topology.pattern = PatternS1

C2_Witness ==
    /\ classified
    /\ Len(messages) = 3
    /\ BranchingMessages(messages) = 2
    /\ ClosureMessages(messages) = 3
    /\ topology.pattern = PatternS1

\* C3 as stated: every result has 1 <= threads <= order + 1 and
\* 1 <= nestingDepth <= 4.
C3_AsStated ==
    classified =>
        /\ 1 <= topology.threads
        /\ topology.threads <= topology.order + 1
        /\ 1 <= topology.nestingDepth
        /\ topology.nestingDepth <= 4

\* C3 amended: for every non-empty message list the result has
\* 1 <= threads <= order + 1 and 1 <= nestingDepth <= 4.
C3_ThreadNestingBounds ==
    (classified /\ Len(messages) > 0) =>
        /\ 1 <= topology.threads
        /\ topology.threads <= topology.order + 1
        /\ 1 <= topology.nestingDepth
        /\ topology.nestingDepth <= 4

\* more branching messages than either cap lets through
C3_Witness ==
    /\ classified
    /\ BranchingMessages(messages) > 8
    /\ topology.threads = topology.order + 1
    /\ topology.nestingDepth = 4

\* the rendering rules of the specification, section 4.3: d opening
\* parentheses then d closing ones
NestedBySpec(d) ==
    IF d <= 1 THEN <<"(", ")">>
    ELSE [i \in 1..(2 * d) |-> IF i <= d THEN "(" ELSE ")"]

RenderedBySpec(order, threads, nestingDepth) ==
    IF order = 0 THEN PatternS0
    ELSE IF order = 1 THEN PatternS1
    ELSE <<"s", DecimalDigit[order + 1], "=", "{", "[">>
            \o [i \in 1..(2 * threads) |-> IF i % 2 = 1 THEN "(" ELSE ")"]
            \o <<"]", ",", "[", "(">>
            \o NestedBySpec(nestingDepth)
            \o <<")", "]", "}">>

\* C4: rendering the pattern again from the order, threads and nestingDepth a
\* result reports, by the rules of section 4.3, gives the result's pattern.
C4_PatternMetricsAgree ==
    classified =>
        topology.pattern =
            RenderedBySpec(topology.order, topology.threads, topology.nestingDepth)

C4_Witness ==
    /\ classified
    /\ topology.order = 4
    /\ topology.threads = 5
    /\ topology.nestingDepth = 4
    /\ Len(topology.pattern) = 30

\* C5: for every non-empty message list the order is 1, 2, 3 or 4.
C5_OrderRange ==
    (classified /\ Len(messages) > 0) => topology.order \in 1..4

C5_Witness ==
    /\ classified
    /\ Len(messages) > 15
    /\ BranchingMessages(messages) > 4
    /\ topology.order = 4

\* C6: order is monotone in (messageCount, branchingPoints): no smaller pair
\* of counts gives a higher order than the classified conversation's, and
\* appending any message to the conversation never lowers its order.
C6_OrderMonotone ==
    classified =>
        /\ \A mc1 \in 1..Len(messages) :
              \A bp1 \in 0..BranchingMessages(messages) :
                  resolveOrder(mc1, bp1) <= topology.order
        /\ \A m \in Messages :
              calculateTopology(Append(messages, m)).order >= topology.order

\* an order reached by the message count alone, above that of shorter lists
C6_Witness ==
    /\ classified
    /\ Len(messages) = 9
    /\ BranchingMessages(messages) = 0
    /\ topology.order = 3
    /\ resolveOrder(8, 0) = 2

\* the tags of [p1p1, p2, p3, p5] whose condition holds of result t, in order
FactorsThatHold(t) ==
    (IF t.threads >= 2 THEN <<"p1p1">> ELSE <<>>)
        \o (IF t.order >= 2 THEN <<"p2">> ELSE <<>>)
        \o (IF t.order >= 3 THEN <<"p3">> ELSE <<>>)
        \o (IF t.nestingDepth > 2 THEN <<"p5">> ELSE <<>>)

\* C7: for non-empty input primeFactors is the sub-list of
\* [p1p1, p2, p3, p5] whose conditions hold (threads >= 2, order >= 2,
\* order >= 3, nestingDepth > 2), or [p1] when none holds; it is never empty,
\* and it is [p1] exactly when threads < 2, order < 2 and nestingDepth <= 2.
C7_PrimeFactors ==
    (classified /\ Len(messages) > 0) =>
        /\ topology.primeFactors # <<>>
        /\ FactorsThatHold(topology) # <<>> =>
              topology.primeFactors = FactorsThatHold(topology)
        /\ FactorsThatHold(topology) = <<>> =>
              topology.primeFactors = <<"p1">>
        /\ (topology.primeFactors = <<"p1">>) <=>
              (/\ topology.threads < 2
               /\ topology.order < 2
               /\ topology.nestingDepth <= 2)

\* all four conditions hold: three threads, order 3, nesting deeper than 2
C7_Witness ==
    /\ classified
    /\ topology.order = 3
    /\ topology.nestingDepth = 3
    /\ topology.primeFactors = <<"p1p1", "p2", "p3", "p5">>

\* C8: nine messages of which exactly three carry a branching signal give
\* order 3, threads 3, nestingDepth 2, complexity "complex_dialogue", pattern
\* "s3={[()()()],[((()))]}" and primeFactors [p1p1, p2, p3].
C8_ScenarioB ==
    (classified /\ Len(messages) = 9 /\ BranchingMessages(messages) = 3) =>
        /\ topology.order = 3
        /\ topology.threads = 3
        /\ topology.nestingDepth = 2
        /\ topology.complexity = "complex_dialogue"
        /\ topology.pattern = PatternScenarioB
        /\ topology.primeFactors = <<"p1p1", "p2", "p3">>

C8_Witness ==
    /\ classified
    /\ Len(messages) = 9
    /\ BranchingMessages(messages) = 3
    /\ ClosureMessages(messages) = 5
    /\ hasBranchingSignal(messages[9])

\* C9: one to three messages, none with a branching signal, give order 1,
\* threads 1, nestingDepth 1, complexity "monologue", pattern "s1={[()]}"
\* and primeFactors [p1].
C9_ScenarioA ==
    (/\ classified
     /\ Len(messages) \in 1..3
     /\ BranchingMessages(messages) = 0) =>
        /\ topology.order = 1
        /\ topology.threads = 1
        /\ topology.nestingDepth = 1
        /\ topology.complexity = "monologue"
        /\ topology.pattern = PatternS1
        /\ topology.primeFactors = <<"p1">>

\* the one user message "Hello"
C9_Witness ==
    /\ classified
    /\ messages = <<Message("user", Hello, "user_input")>>
    /\ topology.primeFactors = <<"p1">>

\* the two conversations agree, position by position, on the branching signal
SameBranching ==
    /\ Len(messages) = Len(twin)
    /\ \A i \in 1..Len(messages) :
          hasBranchingSignal(messages[i]) = hasBranchingSignal(twin[i])

\* C10: two message lists of the same length that agree position by position
\* on the branching signal get the same TopologyPattern, however they differ
\* in closure wording or in the topologyImpact tag.
C10_ClosureIndependent ==
    SameBranching => topology = twinTopology

\* same branching signals, closure signals in one conversation only
C10_Witness ==
    /\ SameBranching
    /\ Len(messages) = 3
    /\ ClosureMessages(messages) = 3
    /\ ClosureMessages(twin) = 0
    /\ BranchingMessages(messages) = 1
    /\ topology = twinTopology
    /\ topology.order = 1

C16_OrderThresholds ==
    (classified /\ Len(messages) > 0) =>
        LET mc == Len(messages)
            bp == BranchingMessages(messages)
        IN  topology.order =
                IF mc > 15 \/ bp > 4 THEN 4
                ELSE IF mc > 8 \/ bp > 2 THEN 3
                ELSE IF mc > 3 THEN 2
                ELSE 1

\* order 3 by the branching messages alone, in a list too short for order 2
C16_Witness ==
    /\ classified
    /\ Len(messages) = 3
    /\ BranchingMessages(messages) = 3
    /\ topology.order = 3

SetMax(S) == CHOOSE x \in S : \A y \in S : y <= x
SetMin(S) == CHOOSE x \in S : \A y \in S : x <= y
\* n / 2 rounded up
HalfUp(n) == (n \div 2) + (n % 2)

\* C17: for non-empty input
\* threads = max(1, min(order + 1, ceil(branchingPoints / 2) + 1)).
C17_Threads ==
    (classified /\ Len(messages) > 0) =>
        LET bp == BranchingMessages(messages)
        IN  topology.threads =
                SetMax({1, SetMin({topology.order + 1, HalfUp(bp) + 1})})

\* the cap at order + 1 decides
C17_Witness ==
    /\ classified
    /\ BranchingMessages(messages) = 11
    /\ topology.order = 4
    /\ topology.threads = 5

\* C18: for non-empty input
\* nestingDepth = min(4, max(1, floor(branchingPoints / 2) + 1)): 1 for 0-1
\* branching messages, 2 for 2-3, 3 for 4-5 and 4 for 6 or more.
C18_NestingDepth ==
    (classified /\ Len(messages) > 0) =>
        LET bp == BranchingMessages(messages)
        IN  /\ topology.nestingDepth = SetMin({4, SetMax({1, (bp \div 2) + 1})})
            /\ topology.nestingDepth =
                   IF bp <= 1 THEN 1
                   ELSE IF bp <= 3 THEN 2
                   ELSE IF bp <= 5 THEN 3
                   ELSE 4

\* the cap at 4 decides
C18_Witness ==
    /\ classified
    /\ BranchingMessages(messages) = 9
    /\ topology.nestingDepth = 4

\* word occurs in content when letter case is ignored
ContainsIgnoringCase(content, word) ==
    \E i \in 0..(Len(content) - Len(word)) :
        \A k \in 1..Len(word) :
            LET c == content[i + k]
            IN  (IF c \in DOMAIN LowerOf THEN LowerOf[c] ELSE c) = word[k]

BranchingBySpec(m) ==
    \/ \E i \in 1..Len(m.content) : m.content[i] = "?"
    \/ ContainsIgnoringCase(m.content, <<"w","h","a","t">>)
    \/ ContainsIgnoringCase(m.content, <<"h","o","w">>)

ClosureBySpec(m) ==
    \/ ContainsIgnoringCase(m.content, <<"c","o","n","c","l","u","s","i","o","n">>)
    \/ ContainsIgnoringCase(m.content, <<"s","u","m","m","a","r","y">>)
    \/ m.topologyImpact = "closure_attempt"

\* C19: branchingPoints is the number of messages whose content contains "?"
\* or, lower-cased, "what" or "how"; closureAttempts is the number of messages
\* whose lower-cased content contains "conclusion" or "summary" or whose
\* topologyImpact is "closure_attempt"; each message adds at most 1 to each
\* counter, independently, so both lie between 0 and messageCount.
C19_Extractor ==
    Len(messages) > 0 =>
        LET analysis == analyzeThreads(messages)
            n == Len(messages)
        IN  /\ analysis.branchingPoints =
                   Cardinality({i \in 1..n : BranchingBySpec(messages[i])})
            /\ analysis.closureAttempts =
                   Cardinality({i \in 1..n : ClosureBySpec(messages[i])})
            /\ analysis.branchingPoints \in 0..n
            /\ analysis.closureAttempts \in 0..n
            /\ classified => calls[1] = "analyzeThreads"

\* an upper-case "WHAT", a "how" inside "Show", and a message that counts
\* toward both counters
C19_Witness ==
    /\ classified
    /\ Len(messages) = 4
    /\ \E i \in 1..4 : messages[i].content = WHAT
    /\ \E i \in 1..4 : messages[i].content = Show
    /\ \E i \in 1..4 : BranchingBySpec(messages[i]) /\ ClosureBySpec(messages[i])
    /\ analyzeThreads(messages).branchingPoints = 3
    /\ analyzeThreads(messages).closureAttempts = 2

\* the characters c among the first n of pattern p
CountIn(p, c, n) == Cardinality({i \in 1..n : p[i] = c})

Balanced(p) ==
    /\ \A n \in 1..Len(p) : CountIn(p, "(", n) >= CountIn(p, ")", n)
    /\ CountIn(p, "(", Len(p)) = CountIn(p, ")", Len(p))

\* C20: for non-empty input with order > 1 the pattern is "s", the order,
\* "={[", threads times "()", "],[(", nested(nestingDepth), ")]}", where
\* nested(d) is "()" for d <= 1 and else d opening then d closing
\* parentheses; it holds threads + nestingDepth + 1 opening parentheses and is
\* balanced.
C20_PatternTemplate ==
    (classified /\ Len(messages) > 0 /\ topology.order > 1) =>
        LET t == topology.threads
            d == topology.nestingDepth
            p == topology.pattern
        IN  /\ p = <<"s", DecimalDigit[topology.order + 1], "=", "{", "[">>
                     \o [i \in 1..(2 * t) |-> IF i % 2 = 1 THEN "(" ELSE ")"]
                     \o <<"]", ",", "[", "(">>
                     \o NestedBySpec(d)
                     \o <<")", "]", "}">>
            /\ CountIn(p, "(", Len(p)) = t + d + 1
            /\ Balanced(p)

\* order 2 with two threads and nesting depth 2: "s2={[()()],[((()))]}"
C20_Witness ==
    /\ classified
    /\ topology.order = 2
    /\ topology.threads = 2
    /\ topology.nestingDepth = 2
    /\ Len(topology.pattern) = 20
    /\ CountIn(topology.pattern, "(", 20) = 5

(***************************************************************************)
(* The exporter.  JSON.stringify is modelled on the shape of sessionData:  *)
(* every leaf becomes the JSON text of its value (a string quoted and      *)
(* escaped, a number in decimal, a Date as its toISOString text, null as   *)
(* null) and JSON.parse reads each text back.  A string that carries no    *)
(* character to escape (a role, a tag) is held as one element.             *)
(***************************************************************************)
\* Date.prototype.toISOString for an instant of the first minute of the epoch
IsoPrefix == <<"1","9","7","0","-","0","1","-","0","1","T","0","0",":","0","0",":">>

padStart(s, n) == fill(n - Len(s), "0") \o s

toISOString(ms) ==
    IsoPrefix \o padStart(numberToString(ms \div 1000), 2) \o <<".">>
              \o padStart(numberToString(ms % 1000), 3) \o <<"Z">>

digitValue(c) == CHOOSE d \in 0..9 : DecimalDigit[d + 1] = c

RECURSIVE parseNumber(_)
parseNumber(t) ==
    IF Len(t) = 0 THEN 0
    ELSE 10 * parseNumber(SubSeq(t, 1, Len(t) - 1)) + digitValue(t[Len(t)])

\* Date.parse of a toISOString text
dateParse(t) ==
    LET n == Len(IsoPrefix)
    IN  1000 * parseNumber(SubSeq(t, n + 1, n + 2))
            + parseNumber(SubSeq(t, n + 4, n + 6))

\* the characters JSON.stringify writes for one character of a string
escapeChar(c) ==
    IF c = "\"" THEN <<"\\", "\"">>
    ELSE IF c = "\\" THEN <<"\\", "\\">>
    ELSE IF c = "\n" THEN <<"\\", "n">>
    ELSE <<c>>

jsonQuote(s) ==
    <<"\"">> \o join([i \in 1..Len(s) |-> escapeChar(s[i])]) \o <<"\"">>

\* a string or null
jsonAtom(a) == IF a = Null THEN <<"n","u","l","l">> ELSE jsonQuote(<<a>>)

jsonDate(d) == jsonQuote(toISOString(d))

\* JSON.parse of the text of a string, from character i of its inside
RECURSIVE unescapeFrom(_, _)
unescapeFrom(t, i) ==
    IF i > Len(t) THEN <<>>
    ELSE IF t[i] = "\\"
         THEN <<(IF t[i + 1] = "n" THEN "\n" ELSE t[i + 1])>>
                  \o unescapeFrom(t, i + 2)
         ELSE <<t[i]>> \o unescapeFrom(t, i + 1)

jsonParseString(t) == unescapeFrom(SubSeq(t, 2, Len(t) - 1), 1)

\* the per-message projection with content cut to a preview of 3 characters
exportMessagePreview(msg) ==
    [id |-> msg.id,
     role |-> msg.role,
     content |-> SubSeq(msg.content, 1, MathMin(3, Len(msg.content))),
     topology_impact |-> msg.topologyImpact,
     timestamp |-> msg.createdAt,
     metadata |-> msg.metadata]

\* the callback of messages.map
exportMessage(msg) ==
    [id |-> msg.id,
     role |-> msg.role,
     content |-> msg.content,
     topology_impact |-> msg.topologyImpact,
     timestamp |-> msg.createdAt,
     metadata |-> msg.metadata]

\* the fixed metadata with updated_at read from the clock
exportMetadataStamped(session, msgs) ==
    [participant_count |-> 2,
     ai_model |-> "gpt-4o",
     total_messages |-> Len(msgs),
     created_at |-> session.createdAt,
     updated_at |-> now]

exportMetadata(session, msgs) ==
    [participant_count |-> 2,
     ai_model |-> "gpt-4o",
     total_messages |-> Len(msgs),
     created_at |-> session.createdAt,
     updated_at |-> session.updatedAt]

\* the object exportSessionToJson builds; new Date() reads the clock
sessionData(sessionId, session, msgs, t) ==
    [session_id |-> sessionId,
     timestamp |-> toISOString(now),
     title |-> session.title,
     topology |-> [pattern |-> t.pattern,
                   order |-> t.order,
                   threads |-> t.threads,
                   complexity |-> t.complexity,
                   prime_factors |-> t.primeFactors,
                   structure |-> t.structure,
                   nesting_depth |-> t.nestingDepth],
     messages |-> [i \in 1..Len(msgs) |-> exportMessage(msgs[i])],
     metadata |-> exportMetadata(session, msgs)]

JSONstringify(data) ==
    [session_id |-> jsonQuote(<<data.session_id>>),
     timestamp |-> jsonQuote(data.timestamp),
     title |-> jsonQuote(data.title),
     topology |->
        [pattern |-> jsonQuote(data.topology.pattern),
         order |-> numberToString(data.topology.order),
         threads |-> numberToString(data.topology.threads),
         complexity |-> jsonQuote(<<data.topology.complexity>>),
         prime_factors |->
            [i \in 1..Len(data.topology.prime_factors) |->
                jsonQuote(<<data.topology.prime_factors[i]>>)],
         structure |->
            [procedural |->
                [i \in 1..Len(data.topology.structure.procedural) |->
                    jsonQuote(data.topology.structure.procedural[i])],
             perspectival |->
                [i \in 1..Len(data.topology.structure.perspectival) |->
                    jsonQuote(data.topology.structure.perspectival[i])],
             participatory |->
                jsonQuote(data.topology.structure.participatory)],
         nesting_depth |-> numberToString(data.topology.nesting_depth)],
     messages |->
        [i \in 1..Len(data.messages) |->
            [id |-> jsonQuote(<<data.messages[i].id>>),
             role |-> jsonQuote(<<data.messages[i].role>>),
             content |-> jsonQuote(data.messages[i].content),
             topology_impact |-> jsonAtom(data.messages[i].topology_impact),
             timestamp |-> jsonDate(data.messages[i].timestamp),
             metadata |-> jsonAtom(data.messages[i].metadata)]],
     metadata |->
        [participant_count |-> numberToString(data.metadata.participant_count),
         ai_model |-> jsonQuote(<<data.metadata.ai_model>>),
         total_messages |-> numberToString(data.metadata.total_messages),
         created_at |-> jsonDate(data.metadata.created_at),
         updated_at |-> jsonDate(data.metadata.updated_at)]]

exportSessionToJson(sessionId, session, msgs, t) ==
    JSONstringify(sessionData(sessionId, session, msgs, t))

\* JSON.parse of an export document, for the fields a consumer reads back
JSONparse(text) ==
    [session_id |-> jsonParseString(text.session_id),
     timestamp |-> jsonParseString(text.timestamp),
     title |-> jsonParseString(text.title),
     topology |-> [pattern |-> jsonParseString(text.topology.pattern),
                   order |-> parseNumber(text.topology.order),
                   threads |-> parseNumber(text.topology.threads)],
     messages |->
        [i \in 1..Len(text.messages) |->
            [id |-> jsonParseString(text.messages[i].id),
             role |-> jsonParseString(text.messages[i].role),
             content |-> jsonParseString(text.messages[i].content),
             timestamp |-> jsonParseString(text.messages[i].timestamp)]],
     metadata |->
        [total_messages |-> parseNumber(text.metadata.total_messages)]]

\* a message as MemStorage.createMessage stores it
StoredMessage(id, sessionId, role, content, topologyImpact, createdAt) ==
    [id |-> id, sessionId |-> sessionId, role |-> role, content |-> content,
     topologyImpact |-> topologyImpact, metadata |-> Null,
     createdAt |-> createdAt]

Quoted == <<"\"","h","i","\"">>
BackslashN == <<"a","\\","n">>
TwoLines == <<"a","\n","b","?">>
ExportContents == {Hello, Quoted, BackslashN, TwoLines}

\* the instants messages of an exported session were created at
Instants == {0, 1005, 58999}

\* the message lists getMessagesBySession hands to the export route: of one
\* session, in createdAt order
ExportInputs ==
    UNION {
        {[i \in 1..n |->
            StoredMessage(IF i % 2 = 1 THEN "u" ELSE "v", "A",
                          IF i % 2 = 1 THEN "user" ELSE "assistant",
                          c[i],
                          IF i % 2 = 1 THEN "user_input" ELSE Null,
                          at[i])] :
            <<c, at>> \in
                {q \in [1..n -> ExportContents] \X [1..n -> Instants] :
                    \A i \in 1..n : \A j \in i..n : q[2][i] <= q[2][j]}} :
        n \in 0..MaxExportLen}

NewChatSession == <<"N","e","w"," ","C","h","a","t"," ","S","e","s","s","i","o","n">>

lastInstant(msgs) == IF Len(msgs) = 0 THEN 0 ELSE msgs[Len(msgs)].createdAt

\* the session record the export route reads for the list msgs
exportedSession(msgs) ==
    [id |-> "A", title |-> NewChatSession,
     createdAt |-> 0, updatedAt |-> lastInstant(msgs)]

InitExport ==
    /\ messages \in ExportInputs
    /\ topology = calculateTopology(messages)
    /\ calls = helpersRun(messages)
    /\ classified = TRUE
    /\ twin = <<>>
    /\ twinTopology = NotCalled
    /\ invocations = 0
    /\ pending = <<>>
    /\ now = lastInstant(messages)
    /\ documents = <<>>
    /\ ApiIdle

\* the clock advances by one millisecond
Tick ==
    /\ now - lastInstant(messages) < MaxClock
    /\ now' = now + 1
    /\ UNCHANGED <<messages, topology, calls, classified, twin, twinTopology,
                   invocations, pending, documents, apiVars>>

\* GET /api/sessions/:id/export on the stored session
Export ==
    /\ Len(documents) < MaxExports
    /\ documents' =
           Append(documents,
                  exportSessionToJson("A", exportedSession(messages), messages,
                                      calculateTopology(messages)))
    /\ UNCHANGED <<messages, topology, calls, classified, twin, twinTopology,
                   invocations, pending, now, apiVars>>

NextExport == Tick \/ Export

SpecExport == InitExport /\ [][NextExport]_vars

withoutTimestamp(doc) == [doc EXCEPT !.timestamp = <<>>]

\* C12 as stated: any two exports of the same session, messages and topology
\* are the same document.
C12_AsStated ==
    \A i, j \in 1..Len(documents) : documents[i] = documents[j]

\* C12: any two exports of the same session, messages and topology are the
\* same document in every field but the top-level timestamp, which is read
\* from the clock at the call and so never lies after the present.
C12_PureExceptTimestamp ==
    \A i, j \in 1..Len(documents) :
        /\ withoutTimestamp(documents[i]) = withoutTimestamp(documents[j])
        /\ dateParse(JSONparse(documents[i]).timestamp) <= now
        /\ i <= j => dateParse(JSONparse(documents[i]).timestamp)
                        <= dateParse(JSONparse(documents[j]).timestamp)

\* two exports of one two-message session, a millisecond apart
C12_Witness ==
    /\ Len(documents) = 2
    /\ Len(messages) = 2
    /\ documents[1].timestamp # documents[2].timestamp
    /\ documents[1].messages = documents[2].messages

\* C13: an export document, parsed back, holds one entry per input message in
\* input order, each with the id, role and full content of its message and a
\* timestamp denoting its createdAt; topology.pattern is the pattern of the
\* TopologyPattern handed in and metadata.total_messages the number of
\* messages.
C13_RoundTrip ==
    \A d \in 1..Len(documents) :
        LET parsed == JSONparse(documents[d])
        IN  /\ Len(parsed.messages) = Len(messages)
            /\ \A i \in 1..Len(messages) :
                   /\ parsed.messages[i].id = <<messages[i].id>>
                   /\ parsed.messages[i].role = <<messages[i].role>>
                   /\ parsed.messages[i].content = messages[i].content
                   /\ dateParse(parsed.messages[i].timestamp)
                          = messages[i].createdAt
            /\ parsed.topology.pattern = topology.pattern
            /\ parsed.metadata.total_messages = Len(messages)

\* an export of two messages whose contents need escaping, created more than
\* a second apart
C13_Witness ==
    /\ Len(documents) > 0
    /\ Len(messages) = 2
    /\ messages[1].content = Quoted
    /\ messages[2].content = BackslashN
    /\ messages[1].createdAt = 1005
    /\ messages[2].createdAt = 58999
    /\ Len(documents[1].messages[1].content) = 8

(***************************************************************************)
(* The storage and the message route.  An invocation of the route runs     *)
(* from one await to the next in one step.  MemStorage's methods are async *)
(* functions without an await of their own: the call runs to its end when  *)
(* the route makes it and the route's continuation is queued as a          *)
(* microtask.  Node runs the queued microtasks, first in first out, before *)
(* it takes the next event (a request received, the provider's response);  *)
(* only the await of generateChatResponse waits for an event.              *)
(***************************************************************************)
\* MemStorage.getSession
getSession(sess, id) == IF id \in DOMAIN sess THEN sess[id] ELSE NoSession

\* MemStorage.createSession with the id randomUUID returned
createSession(sess, id, insertSession, at) ==
    [k \in DOMAIN sess \cup {id} |->
        IF k = id
        THEN [id |-> id,
              title |-> insertSession.title,
              topologyPattern |-> insertSession.topologyPattern,
              topologyOrder |-> insertSession.topologyOrder,
              threadCount |-> insertSession.threadCount,
              messageCount |-> insertSession.messageCount,
              isActive |-> insertSession.isActive,
              createdAt |-> at,
              updatedAt |-> at]
        ELSE sess[k]]

\* MemStorage.updateSession
updateSession(sess, id, updates, at) ==
    IF id \notin DOMAIN sess THEN sess
    ELSE [sess EXCEPT ![id] =
             [@ EXCEPT !.topologyPattern = updates.topologyPattern,
                       !.topologyOrder = updates.topologyOrder,
                       !.threadCount = updates.threadCount,
                       !.messageCount = updates.messageCount,
                       !.updatedAt = at]]

\* MemStorage.createMessage
createMessage(st, id, insertMessage, at) ==
    Append(st, StoredMessage(id, insertMessage.sessionId, insertMessage.role,
                             insertMessage.content,
                             insertMessage.topologyImpact, at))

\* Array.prototype.sort by createdAt: stable
RECURSIVE sortByCreatedAt(_)
sortByCreatedAt(list) ==
    IF Len(list) <= 1 THEN list
    ELSE LET sorted == sortByCreatedAt(SubSeq(list, 1, Len(list) - 1))
             last == list[Len(list)]
             k == Cardinality({i \in 1..Len(sorted) :
                                  sorted[i].createdAt <= last.createdAt})
         IN  SubSeq(sorted, 1, k) \o <<last>>
                 \o SubSeq(sorted, k + 1, Len(sorted))

\* getMessagesBySession without the filter on sessionId
getMessagesBySessionUnfiltered(st, sessionId) ==
    sortByCreatedAt(st)

\* MemStorage.getMessagesBySession
getMessagesBySession(st, sessionId) ==
    sortByCreatedAt(SelectSeq(st, LAMBDA m : m.sessionId = sessionId))

\* saveTopologyAnalysis without the removal of the session's existing analysis
saveTopologyAnalysisKeepAll(an, id, insertAnalysis, at) ==
    Append(an, [id |-> id,
                sessionId |-> insertAnalysis.sessionId,
                pattern |-> insertAnalysis.pattern,
                primeFactors |-> insertAnalysis.primeFactors,
                structure |-> insertAnalysis.structure,
                complexity |-> insertAnalysis.complexity,
                nestingDepth |-> insertAnalysis.nestingDepth,
                createdAt |-> at])

\* MemStorage.saveTopologyAnalysis
saveTopologyAnalysis(an, id, insertAnalysis, at) ==
    LET analysis == [id |-> id,
                     sessionId |-> insertAnalysis.sessionId,
                     pattern |-> insertAnalysis.pattern,
                     primeFactors |-> insertAnalysis.primeFactors,
                     structure |-> insertAnalysis.structure,
                     complexity |-> insertAnalysis.complexity,
                     nestingDepth |-> insertAnalysis.nestingDepth,
                     createdAt |-> at]
        found == {i \in 1..Len(an) : an[i].sessionId = insertAnalysis.sessionId}
        existing == CHOOSE i \in found : \A j \in found : i <= j
        kept == IF found = {} THEN an
                ELSE SubSeq(an, 1, existing - 1)
                         \o SubSeq(an, existing + 1, Len(an))
    IN  Append(kept, analysis)

\* MemStorage.getTopologyAnalysis: the first analysis of the session, in
\* insertion order
getTopologyAnalysis(an, sessionId) ==
    LET found == {i \in 1..Len(an) : an[i].sessionId = sessionId}
    IN  IF found = {} THEN NoAnalysis
        ELSE an[CHOOSE i \in found : \A j \in found : i <= j]

\* MemStorage.deleteSession: the session's messages, the first analysis of
\* the session and the session record are removed
deleteSession(w, id) ==
    LET found == {i \in 1..Len(w.analyses) : w.analyses[i].sessionId = id}
        analysis == CHOOSE i \in found : \A j \in found : i <= j
    IN  [w EXCEPT
            !.store = SelectSeq(@, LAMBDA m : m.sessionId # id),
            !.analyses = IF found = {} THEN @
                         ELSE SubSeq(@, 1, analysis - 1)
                                  \o SubSeq(@, analysis + 1, Len(@)),
            !.sessions = [k \in DOMAIN @ \ {id} |-> @[k]]]

\* services/openai.ts
determineTopologyImpact(content, messageCount) ==
    IF \/ includes(content, QuestionMark)
       \/ includes(toLowerCase(content), What)
       \/ includes(toLowerCase(content), How)
    THEN "inquiry_branch"
    ELSE IF \/ includes(toLowerCase(content), Conclusion)
            \/ includes(toLowerCase(content), Summary)
         THEN "closure_attempt"
         ELSE IF messageCount > 1 THEN "thread_continuation"
              ELSE "thread_initiation"

\* what generateChatResponse returns for the provider's text
chatResponse(content, history) ==
    [content |-> content,
     topologyImpact |-> determineTopologyImpact(content, Len(history))]

\* the texts a client sends; the empty text fails the content check
UserContents == {<<>>, Hello, WhyQ}
\* the texts the provider answers with (never empty: generateChatResponse
\* puts an apology in the place of an empty text)
AiContents == {Hello, SummaryNote}
\* how a call of the provider ends
Outcomes ==
    {[ok |-> TRUE, content |-> c] : c \in AiContents}
        \cup {[ok |-> FALSE, content |-> <<>>]}

\* the positions at which an invocation waits for a queued continuation
Queued ==
    {"getSession", "createUser", "getMessages", "generated", "rejected",
     "createAi", "getUpdated", "updateSession", "saveAnalysis"}

\* POST /api/sessions
postSession(w, id, at) ==
    [w EXCEPT !.sessions =
        createSession(@, id,
                      [title |-> NewChatSession,
                       topologyPattern |-> <<"s","1","=","{","[","(",")","]","}">>,
                       topologyOrder |-> 1,
                       threadCount |-> 1,
                       messageCount |-> 0,
                       isActive |-> "true"],
                      at)]

\* the message route from its entry to its first await
receive(w, h, sessionId, content) ==
    IF Len(content) = 0
    THEN [w EXCEPT !.handlers[h] =
             [@ EXCEPT !.pc = "done", !.sessionId = sessionId,
                       !.content = content, !.status = 400]]
    ELSE [w EXCEPT !.handlers[h] =
             [@ EXCEPT !.pc = "getSession", !.sessionId = sessionId,
                       !.content = content,
                       !.session = getSession(w.sessions, sessionId)]]

\* the provider's response or failure reaches the waiting invocations
settle(w, outcome) ==
    [w EXCEPT !.handlers =
        [h \in HandlerIds |->
            LET self == w.handlers[h]
            IN  IF h \in DOMAIN outcome /\ self.pc = "generate"
                THEN IF outcome[h].ok
                     THEN [self EXCEPT
                              !.pc = "generated",
                              !.aiResponse =
                                  chatResponse(outcome[h].content,
                                               self.messages)]
                     ELSE [self EXCEPT !.pc = "rejected"]
                ELSE self]]

\* the message route from one await to the next; id is the value randomUUID
\* returns if the step calls it
resume(w, h, id, at) ==
    LET self == w.handlers[h]
    IN  CASE self.pc = "getSession" ->
                IF self.session = NoSession
                THEN [w EXCEPT !.handlers[h].pc = "done",
                               !.handlers[h].status = 404]
                ELSE [w EXCEPT
                         !.store = createMessage(@, id,
                                       [sessionId |-> self.sessionId,
                                        role |-> "user",
                                        content |-> self.content,
                                        topologyImpact |-> "user_input"],
                                       at),
                         !.handlers[h].userMessage =
                             StoredMessage(id, self.sessionId, "user",
                                           self.content, "user_input", at),
                         !.handlers[h].pc = "createUser"]
          [] self.pc = "createUser" ->
                [w EXCEPT !.handlers[h].messages =
                              getMessagesBySession(w.store, self.sessionId),
                          !.handlers[h].pc = "getMessages"]
          [] self.pc = "getMessages" ->
                [w EXCEPT !.handlers[h].pc = "generate"]
          [] self.pc = "generated" ->
                [w EXCEPT
                    !.store = createMessage(@, id,
                                  [sessionId |-> self.sessionId,
                                   role |-> "assistant",
                                   content |-> self.aiResponse.content,
                                   topologyImpact |->
                                       self.aiResponse.topologyImpact],
                                  at),
                    !.handlers[h].aiMessage =
                        StoredMessage(id, self.sessionId, "assistant",
                                      self.aiResponse.content,
                                      self.aiResponse.topologyImpact, at),
                    !.handlers[h].pc = "createAi"]
          [] self.pc = "rejected" ->
                [w EXCEPT !.handlers[h].pc = "done",
                          !.handlers[h].status = 500]
          [] self.pc = "createAi" ->
                [w EXCEPT !.handlers[h].updatedMessages =
                              getMessagesBySession(w.store, self.sessionId),
                          !.handlers[h].pc = "getUpdated"]
          [] self.pc = "getUpdated" ->
                LET t == calculateTopology(self.updatedMessages)
                IN  [w EXCEPT
                        !.handlers[h].topology = t,
                        !.sessions =
                            updateSession(@, self.sessionId,
                                [topologyPattern |-> t.pattern,
                                 topologyOrder |-> t.order,
                                 threadCount |-> t.threads,
                                 messageCount |-> Len(self.updatedMessages)],
                                at),
                        !.handlers[h].pc = "updateSession"]
          [] self.pc = "updateSession" ->
                [w EXCEPT
                    !.analyses =
                        saveTopologyAnalysis(@, id,
                            [sessionId |-> self.sessionId,
                             pattern |-> self.topology.pattern,
                             primeFactors |-> self.topology.primeFactors,
                             structure |-> self.topology.structure,
                             complexity |-> self.topology.complexity,
                             nestingDepth |-> self.topology.nestingDepth],
                            at),
                    !.handlers[h].pc = "saveAnalysis"]
          [] self.pc = "saveAnalysis" ->
                [w EXCEPT !.handlers[h].pc = "done",
                          !.handlers[h].status = 200]
          [] OTHER -> w

\* the positions whose step calls randomUUID
callsRandomUUID(self) ==
    \/ self.pc = "getSession" /\ self.session # NoSession
    \/ self.pc = "generated"
    \/ self.pc = "updateSession"

World ==
    [sessions |-> sessions, store |-> store, analyses |-> analyses,
     handlers |-> handlers]

Becomes(w) ==
    /\ sessions' = w.sessions
    /\ store' = w.store
    /\ analyses' = w.analyses
    /\ handlers' = w.handlers

classifierVars ==
    <<messages, topology, calls, classified, twin, twinTopology, invocations,
      pending>>

\* a client creates the session sessionId
CreateSession(sessionId) ==
    /\ microtasks = <<>>
    /\ sessionId \notin DOMAIN sessions
    /\ sessionId \notin deleted
    /\ Becomes(postSession(World, sessionId, now))
    /\ alone' = [alone EXCEPT ![sessionId] = postSession(@, sessionId, now)]
    /\ UNCHANGED <<classifierVars, now, documents, microtasks, nextId, deleted,
                   lastSaved>>

\* Receive that does not wait for the queued continuations to run
ReceiveMidDrain(h, sessionId, content) ==
    /\ handlers[h].pc = "idle"
    /\ \A k \in 1..(h - 1) : handlers[k].pc # "idle"
    /\ LET w == receive(World, h, sessionId, content)
       IN  /\ Becomes(w)
           /\ microtasks' = IF w.handlers[h].pc \in Queued
                            THEN Append(microtasks, h) ELSE microtasks
    /\ alone' = [alone EXCEPT ![sessionId] = receive(@, h, sessionId, content)]
    /\ UNCHANGED <<classifierVars, now, documents, nextId, deleted, lastSaved>>

\* request h to POST /api/sessions/:id/messages arrives
Receive(h, sessionId, content) ==
    /\ microtasks = <<>>
    /\ handlers[h].pc = "idle"
    /\ \A k \in 1..(h - 1) : handlers[k].pc # "idle"
    /\ LET w == receive(World, h, sessionId, content)
       IN  /\ Becomes(w)
           /\ microtasks' = IF w.handlers[h].pc \in Queued
                            THEN Append(microtasks, h) ELSE microtasks
    /\ alone' = [alone EXCEPT ![sessionId] = receive(@, h, sessionId, content)]
    /\ UNCHANGED <<classifierVars, now, documents, nextId, deleted, lastSaved>>

\* the first queued continuation runs to its next await
Resume ==
    /\ microtasks # <<>>
    /\ LET h == Head(microtasks)
           id == nextId + 1
           w == resume(World, h, id, now)
       IN  /\ Becomes(w)
           /\ microtasks' = IF w.handlers[h].pc \in Queued
                            THEN Append(Tail(microtasks), h)
                            ELSE Tail(microtasks)
           /\ nextId' = IF callsRandomUUID(handlers[h]) THEN id ELSE nextId
           /\ lastSaved' = IF handlers[h].pc = "updateSession"
                            THEN [lastSaved EXCEPT ![handlers[h].sessionId] =
                                     w.analyses[Len(w.analyses)]]
                            ELSE lastSaved
           /\ alone' = [alone EXCEPT ![handlers[h].sessionId] =
                                         resume(@, h, id, now)]
    /\ UNCHANGED <<classifierVars, now, documents, deleted>>

\* the waiting invocations, in the orders one event can settle them
Batches ==
    {q \in UNION {[1..n -> HandlerIds] : n \in 1..Cardinality(HandlerIds)} :
        /\ \A i, j \in 1..Len(q) : q[i] = q[j] => i = j
        /\ \A i \in 1..Len(q) : handlers[q[i]].pc = "generate"}

\* the provider answers or fails the calls of batch
Settle(batch, outcome) ==
    /\ microtasks = <<>>
    /\ DOMAIN outcome = {batch[i] : i \in 1..Len(batch)}
    /\ Becomes(settle(World, outcome))
    /\ microtasks' = batch
    /\ alone' = [s \in SessionIds |->
                    settle(alone[s],
                           [h \in {k \in DOMAIN outcome :
                                      handlers[k].sessionId = s} |->
                               outcome[h]])]
    /\ UNCHANGED <<classifierVars, now, documents, nextId, deleted, lastSaved>>

NextApi ==
    \/ \E sessionId \in SessionIds : CreateSession(sessionId)
    \/ \E h \in HandlerIds, sessionId \in SessionIds, content \in UserContents :
           Receive(h, sessionId, content)
    \/ Resume
    \/ \E batch \in Batches :
           \E outcome \in [{batch[i] : i \in 1..Len(batch)} -> Outcomes] :
               Settle(batch, outcome)
    \/ Tick

SpecApi == Init /\ [][NextApi]_vars

\* what a client can read of session s from the storage w: its record, its
\* messages and its topology analysis
sessionView(w, s) ==
    [session |-> IF s \in DOMAIN w.sessions THEN w.sessions[s] ELSE NoSession,
     messages |-> SelectSeq(w.store, LAMBDA m : m.sessionId = s),
     analysis |-> SelectSeq(w.analyses, LAMBDA a : a.sessionId = s)]

\* the storage and the invocations after the step
WorldNext ==
    [sessions |-> sessions', store |-> store', analyses |-> analyses',
     handlers |-> handlers']

\* C14: a step of a message request for one session leaves every other
\* session's stored messages, session record and topology analysis as they
\* were, and after every step each session has the messages, record and
\* analysis it has on a server that is sent that session's requests only.
C14_SessionsIndependent ==
    [][/\ \A h \in HandlerIds :
              handlers'[h] # handlers[h] =>
                  \A s \in SessionIds \ {handlers'[h].sessionId} :
                      sessionView(WorldNext, s) = sessionView(World, s)
       /\ \A s \in SessionIds :
              sessionView(WorldNext, s) = sessionView(alone'[s], s)]_vars

\* both sessions hold an exchange, the requests having run interleaved: each
\* request read its history before the other's reply was stored
C14_Witness ==
    /\ handlers[1].status = 200
    /\ handlers[2].status = 200
    /\ handlers[1].sessionId = "A"
    /\ handlers[2].sessionId = "B"
    /\ Len(store) = 4
    /\ store[1].sessionId = "A"
    /\ store[2].sessionId = "B"
    /\ store[3].sessionId = "B"
    /\ store[4].sessionId = "A"
    /\ sessions["A"].messageCount = 2
    /\ sessions["B"].messageCount = 2

\* C15: from the step in which an invocation reads updatedMessages to its
\* last write-back, the list it read is the session's stored list, so the
\* messageCount and pattern it writes to the session, and the analysis it
\* saves, are those of all the messages stored for the session.
C15_WriteBackCurrent ==
    \A h \in HandlerIds :
        LET self == handlers[h]
            stored == getMessagesBySession(store, self.sessionId)
        IN  /\ self.pc \in {"getUpdated", "updateSession"} =>
                   self.updatedMessages = stored
            /\ self.pc \in {"updateSession", "saveAnalysis"} =>
                   /\ sessions[self.sessionId].messageCount = Len(stored)
                   /\ sessions[self.sessionId].topologyPattern
                          = calculateTopology(stored).pattern
            /\ self.pc = "saveAnalysis" =>
                   \E i \in 1..Len(analyses) :
                       /\ analyses[i].sessionId = self.sessionId
                       /\ analyses[i].pattern = calculateTopology(stored).pattern

\* two requests for one session in flight together: the second read its
\* history before the first's reply was stored, and the second's write-back
\* counts the four messages
C15_Witness ==
    /\ handlers[1].sessionId = "A"
    /\ handlers[2].sessionId = "A"
    /\ handlers[1].status = 200
    /\ handlers[2].pc = "saveAnalysis"
    /\ Len(handlers[1].messages) = 1
    /\ Len(handlers[2].messages) = 2
    /\ sessions["A"].messageCount = 4

\* C21: for non-empty input structure.procedural has exactly threads
\* entries, each "()"; structure.perspectival is ["()"] when nestingDepth = 1
\* and ["()", nested(nestingDepth - 1)] when nestingDepth > 1, never longer;
\* structure.participatory is "s" followed by the order.
C21_Structure ==
    (classified /\ Len(messages) > 0) =>
        LET st == topology.structure
            d == topology.nestingDepth
        IN  /\ Len(st.procedural) = topology.threads
            /\ \A i \in 1..Len(st.procedural) : st.procedural[i] = <<"(", ")">>
            /\ Len(st.perspectival) \in {1, 2}
            /\ st.perspectival[1] = <<"(", ")">>
            /\ d = 1 => Len(st.perspectival) = 1
            /\ d > 1 => /\ Len(st.perspectival) = 2
                        /\ st.perspectival[2] = NestedBySpec(d - 1)
            /\ st.participatory = <<"s", DecimalDigit[topology.order + 1]>>

\* five threads and nesting depth 4: the second perspectival element is
\* "((()))"
C21_Witness ==
    /\ classified
    /\ topology.threads = 5
    /\ topology.nestingDepth = 4
    /\ Len(topology.structure.procedural) = 5
    /\ topology.structure.perspectival[2] = <<"(","(","(",")",")",")">>

\* C22: the complexity label is "monologue" iff order = 1, "dialogue" iff
\* order = 2, "complex_dialogue" iff order = 3, "multi_threaded_discourse"
\* only when order = 4, and "empty" only for the empty message list.
C22_ComplexityLabel ==
    classified =>
        /\ topology.complexity = "monologue" <=> topology.order = 1
        /\ topology.complexity = "dialogue" <=> topology.order = 2
        /\ topology.complexity = "complex_dialogue" <=> topology.order = 3
        /\ topology.complexity = "multi_threaded_discourse" => topology.order = 4
        /\ topology.complexity = "empty" => Len(messages) = 0
        /\ topology.complexity \in
               {"empty", "monologue", "dialogue", "complex_dialogue",
                "multi_threaded_discourse"}

\* order 3 reached by the number of messages alone
C22_Witness ==
    /\ classified
    /\ Len(messages) = 9
    /\ BranchingMessages(messages) = 0
    /\ topology.complexity = "complex_dialogue"

\* C23: for non-empty input nestingDepth <= threads <= nestingDepth + 1 and
\* threads <= 5, and the cap of threads at order + 1 is below
\* ceil(branchingPoints / 2) + 1 only at order 4.
C23_ThreadsTrackNesting ==
    (classified /\ Len(messages) > 0) =>
        /\ topology.nestingDepth <= topology.threads
        /\ topology.threads <= topology.nestingDepth + 1
        /\ topology.threads <= 5
        /\ topology.order + 1 < HalfUp(BranchingMessages(messages)) + 1 =>
               topology.order = 4

\* both caps bind: ten branching messages, five threads, nesting depth 4
C23_Witness ==
    /\ classified
    /\ BranchingMessages(messages) = 10
    /\ topology.threads = 5
    /\ topology.nestingDepth = 4

has(list, x) == \E i \in 1..Len(list) : list[i] = x

\* C24: in every primeFactors list "p5" comes only with all of "p1p1", "p2"
\* and "p3", "p3" only with "p2", and "p1" only alone.
C24_FactorImplications ==
    classified =>
        LET f == topology.primeFactors
        IN  /\ has(f, "p5") => has(f, "p1p1") /\ has(f, "p2") /\ has(f, "p3")
            /\ has(f, "p3") => has(f, "p2")
            /\ has(f, "p1") => f = <<"p1">>

\* the shortest list with "p5": four messages, all branching
C24_Witness ==
    /\ classified
    /\ Len(messages) = 4
    /\ BranchingMessages(messages) = 4
    /\ topology.primeFactors = <<"p1p1", "p2", "p3", "p5">>

\* C26: as a conversation grows by one message at a time from the empty
\* list (threads 0, nestingDepth 0), neither threads nor nestingDepth of a
\* classification is below that of the classification before it.
C26_NeverDecrease ==
    [][/\ topology'.threads >= topology.threads
       /\ topology'.nestingDepth >= topology.nestingDepth]_vars

\* a conversation grown to seventeen messages, the last nine of them
\* branching
C26_Witness ==
    /\ Len(messages) = 17
    /\ pending = <<>>
    /\ BranchingMessages(messages) = 9
    /\ ~hasBranchingSignal(messages[1])
    /\ topology.threads = 5
    /\ topology.nestingDepth = 4

\* n messages of which the first b carry a "?" and nothing else differs
plainList(n, b) ==
    [i \in 1..n |->
        [role |-> "user",
         content |-> IF i <= b THEN <<"?">> ELSE <<"x">>,
         topologyImpact |-> Null]]

\* C25: the TopologyPattern of a message list is that of any rearrangement of
\* it (another order, roles exchanged, other ids and timestamps), and is the
\* TopologyPattern of any list with as many messages and as many messages
\* carrying a branching signal.
C25_CountsOnly ==
    classified =>
        /\ topology = twinTopology
        /\ topology =
               calculateTopology(
                   plainList(Len(messages),
                             Cardinality({i \in 1..Len(messages) :
                                             BranchingBySpec(messages[i])})))

\* three messages classified with their reverse, roles exchanged and ids and
\* timestamps changed: the one branching message is first in one list and last
\* in the other
C25_Witness ==
    /\ classified
    /\ Len(messages) = 3
    /\ messages[1].content = WhyQ
    /\ messages[2].content = SummaryNote
    /\ messages[3].content = Hello
    /\ \A i \in 1..3 : /\ twin[i].content = messages[4 - i].content
                       /\ twin[i].role # messages[4 - i].role
                       /\ twin[i].id # messages[4 - i].id
                       /\ twin[i].createdAt # messages[4 - i].createdAt
    /\ topology.threads = 2

(***************************************************************************)
(* Session deletion and direct calls of the storage.                       *)
(***************************************************************************)
\* DELETE /api/sessions/:id.  deleteSession runs to its end in the call; the
\* continuation that answers 200 or 404 touches no state and runs before the
\* next event.
DeleteSession(sessionId) ==
    /\ microtasks = <<>>
    /\ Becomes(deleteSession(World, sessionId))
    /\ deleted' = deleted \cup {sessionId}
    /\ lastSaved' = [lastSaved EXCEPT ![sessionId] = NoAnalysis]
    /\ alone' = [alone EXCEPT ![sessionId] = deleteSession(@, sessionId)]
    /\ UNCHANGED <<classifierVars, now, documents, microtasks, nextId>>

\* SpecApiDelete: the message route, session creation and session deletion
NextApiDelete ==
    \/ NextApi
    \/ \E sessionId \in SessionIds : DeleteSession(sessionId)

SpecApiDelete == Init /\ [][NextApiDelete]_vars

\* the TopologyPatterns saved under SpecStorage: of no message, of one plain
\* message and of four branching messages
SavedTopologies ==
    {calculateTopology(plainList(n, n)) : n \in {0, 4}}
        \cup {calculateTopology(plainList(1, 0))}

\* storage.saveTopologyAnalysis is called for sessionId with the fields of t
SaveAnalysis(sessionId, t) ==
    /\ nextId < MaxSaves
    /\ nextId' = nextId + 1
    /\ analyses' =
           saveTopologyAnalysis(analyses, nextId',
               [sessionId |-> sessionId,
                pattern |-> t.pattern,
                primeFactors |-> t.primeFactors,
                structure |-> t.structure,
                complexity |-> t.complexity,
                nestingDepth |-> t.nestingDepth],
               now)
    /\ lastSaved' = [lastSaved EXCEPT ![sessionId] = analyses'[Len(analyses')]]
    /\ UNCHANGED <<classifierVars, now, documents, sessions, store, handlers,
                   microtasks, deleted, alone>>

\* SpecStorage: any sequence of saveTopologyAnalysis and deleteSession calls
NextStorage ==
    \/ \E sessionId \in SessionIds, t \in SavedTopologies :
           SaveAnalysis(sessionId, t)
    \/ \E sessionId \in SessionIds : DeleteSession(sessionId)
    \/ Tick

SpecStorage == Init /\ [][NextStorage]_vars

\* no invocation of the message route is between its entry and its response
NoRequestInFlight ==
    /\ microtasks = <<>>
    /\ \A h \in HandlerIds : handlers[h].pc \in {"idle", "done"}

\* C27 as stated: whenever no request is in flight, each stored session's
\* topologyPattern, topologyOrder and threadCount are the pattern, order and
\* threads calculateTopology returns for the session's stored messages, and
\* its messageCount is their number, from the creation of the session on.
C27_SummaryAgrees ==
    NoRequestInFlight =>
        \A s \in DOMAIN sessions :
            LET stored == SelectSeq(store, LAMBDA m : m.sessionId = s)
                t == calculateTopology(stored)
            IN  /\ sessions[s].topologyPattern = t.pattern
                /\ sessions[s].topologyOrder = t.order
                /\ sessions[s].threadCount = t.threads
                /\ sessions[s].messageCount = Len(stored)

\* C28 as stated: the user message of a message POST that was answered 400,
\* 404 or 500 is not in the storage.
C28_ErrorLeavesStorage ==
    \A h \in HandlerIds :
        (handlers[h].pc = "done" /\ handlers[h].status \in {400, 404, 500}) =>
            \A i \in 1..Len(store) : store[i].id # handlers[h].userMessage.id

\* C29 as stated: every stored message and every stored topology analysis has
\* the sessionId of a stored session, and none has a sessionId deleteSession
\* has been called with.
C29_NoOrphans ==
    /\ \A i \in 1..Len(store) :
           store[i].sessionId \in DOMAIN sessions \ deleted
    /\ \A i \in 1..Len(analyses) :
           analyses[i].sessionId \in DOMAIN sessions \ deleted

\* C30: the storage holds at most one topology analysis per sessionId, and
\* getTopologyAnalysis returns the analysis saved last for the session since
\* its deletion, or nothing if there is none.
C30_OneAnalysisPerSession ==
    \A s \in SessionIds :
        /\ Cardinality({i \in 1..Len(analyses) : analyses[i].sessionId = s}) <= 1
        /\ getTopologyAnalysis(analyses, s) = lastSaved[s]

\* three saves, the first for a session deleted since, the other two for one
\* session: the storage holds the last only
C30_Witness ==
    /\ nextId = 3
    /\ deleted = {"A"}
    /\ lastSaved["A"] = NoAnalysis
    /\ Len(analyses) = 1
    /\ analyses[1].id = 3
    /\ analyses[1].sessionId = "B"
    /\ getTopologyAnalysis(analyses, "B").id = 3

====
